---- MODULE Spec2Model ----
(***************************************************************************)
(* Token-Flight-Bot: the distribution-planning engine of                   *)
(* distribution_bot.py (emission schedule, UTXO selection, plan assembly)  *)
(* and the cycle driver main().                                            *)
(*                                                                         *)
(* A Python exception is modelled as a value: every function result is a   *)
(* record whose field "raised" is "" when the function returns and the     *)
(* exception's class name when it raises.                                  *)
(***************************************************************************)
EXTENDS Integers, Sequences, FiniteSets, TLC

VARIABLES
    pc,                  \* position of the caller: which call is pending / done
    tokens_info,         \* bot_info["tokens"]: token id -> token config
    num_recipients,      \* len(recipient_wallets)
    current_round,       \* main(): current_round
    unspent_boxes,       \* what the node answers to getUnspentBoxes (a list)
    all_utxos,           \* the snapshot: token id -> list of UTXO records
    token_distributions, \* List[TokenDistribution] handed to select/distribute
    calc,                \* result of calculate_token_distributions
    utxo_set,            \* result of select_utxos
    plan,                \* result of distribute_multiple_tokens
    box_age_over_30,     \* main(): time.time() - utxo_scan_time > 30
    spent_boxes,         \* ids of scanned boxes the node no longer has
    emitted              \* history: round amounts computed so far, per round

vars == <<pc, tokens_info, num_recipients, current_round, unspent_boxes,
          all_utxos, token_distributions, calc, utxo_set, plan,
          box_age_over_30, spent_boxes, emitted>>

----------------------------------------------------------------------------
(* Program constants (distribution_bot.py:21-24), in nanoERG.              *)

NANOERG_PER_RECIPIENT == 1000000
MIN_BOX_VALUE == 1000000
FEE == 1000000

----------------------------------------------------------------------------
(* Bounds of the model.                                                    *)

MaxBoxes == 3          \* longest list getUnspentBoxes answers
MaxRecipients == 2     \* most recipient wallets
MaxScan == 2           \* longest list of boxes in a cycle of the driver
MaxRound == 3          \* last round the driver is followed to
MaxEmissionRound == 7  \* last round the emission schedule is followed to
MaxPerRound == 3       \* largest tokens_per_round of the emission check
MaxTotalAmount == 6    \* largest total_amount of the emission check
MaxPerRecipient == 2   \* largest amount_per_recipient of a free distribution

----------------------------------------------------------------------------
(* Data.                                                                   *)

\* Token ids configured in bot_info["tokens"], in the dict's (insertion) order.
TokenOrder == <<"A", "B">>

TokenIds == {TokenOrder[i] : i \in 1..Len(TokenOrder)}

Range(s) == {s[i] : i \in 1..Len(s)}

\* A UTXO record as utxo_scanner builds it: {"box_id", "value", "tokens"}.
Utxo(id, v, toks) == [box_id |-> id, value |-> v, tokens |-> toks]

\* The boxes that may sit at the proxy address.  Every box has its own id.
\* "C" is a token the bot is not configured for; boxes may still carry it.
BoxPool ==
    { Utxo(1,  500000, [t \in {"A"} |-> 1]),
      Utxo(2, 3000000, [t \in {"A"} |-> 2]),
      Utxo(3,  500000, [t \in {"A"} |-> 2]),
      Utxo(4, 3000000, [t \in {"A", "B"} |-> 1]),
      Utxo(5,  500000, [t \in {"A", "C"} |-> IF t = "A" THEN 2 ELSE 1]),
      Utxo(6, 3000000, [t \in {"B"} |-> 2]),
      Utxo(7, 1000000, [t \in {"B"} |-> 1]),
      Utxo(8,  500000, [t \in {"A", "B"} |-> IF t = "A" THEN 1 ELSE 2]) }

\* Lists of at most n boxes of the pool, no box twice, in any order.
BoxLists(n) ==
    { s \in UNION { [1..k -> BoxPool] : k \in 0..n } :
        \A i, j \in DOMAIN s : s[i].box_id = s[j].box_id => i = j }

\* utxo['tokens'].get(token_id, 0)
TokenAmount(utxo, token_id) ==
    IF token_id \in DOMAIN utxo.tokens THEN utxo.tokens[token_id] ELSE 0

\* dict.get(key, []) on a dict of lists
GetList(d, key) == IF key \in DOMAIN d THEN d[key] ELSE <<>>

RECURSIVE SumSeq(_)
SumSeq(s) == IF s = <<>> THEN 0 ELSE Head(s) + SumSeq(Tail(s))

\* sum(utxo['tokens'].get(token_id, 0) for utxo in utxos)
TokenTotal(utxos, token_id) ==
    SumSeq([i \in 1..Len(utxos) |-> TokenAmount(utxos[i], token_id)])

ValueTotal(utxos) == SumSeq([i \in 1..Len(utxos) |-> utxos[i].value])

Min(a, b) == IF a <= b THEN a ELSE b
Max(a, b) == IF a >= b THEN a ELSE b

----------------------------------------------------------------------------
(* utxo_scanner.scan_proxy_utxos and the scan loop of main().              *)

\* The boxes of the node's answer that contain token_id, in the node's order.
scan_proxy_utxos(boxes, token_id) ==
    SelectSeq(boxes, LAMBDA b : token_id \in DOMAIN b.tokens)

\* main(): all_utxos[token_id] = utxos, only for tokens with a non-empty scan.
\* The node gives the same answer to every token's scan of one iteration.
ScanAll(boxes) ==
    [t \in {u \in TokenIds : scan_proxy_utxos(boxes, u) # <<>>}
        |-> scan_proxy_utxos(boxes, t)]

\* Keys of the snapshot in dict order (tokens_info order).
SnapshotKeys(utxos) == SelectSeq(TokenOrder, LAMBDA t : t \in DOMAIN utxos)

----------------------------------------------------------------------------
(* Emission schedule: calculate_token_distributions, lines 160-175.        *)

DistributionTypes == {"linear", "logarithmic", "quadratic", "constant"}

TokenConfig(type, per_round, total) ==
    [distribution_type |-> type, tokens_per_round |-> per_round,
     total_amount |-> total]

\* math.ceil(a / b) for an integer a and an integer b # 0.
CeilDiv(a, b) == -((-a) \div b)

\* int(base * math.log(arg) / math.log(rounds)) for 1 <= arg <= rounds,
\* rounds >= 2, base >= 0: the largest k with rounds^k <= arg^base.
LogShare(base, arg, rounds) ==
    CHOOSE k \in 0..base :
        /\ rounds ^ k <= arg ^ base
        /\ k < base => rounds ^ (k + 1) > arg ^ base

\* int(base * ((rounds - round) / rounds) ** 2) for rounds # 0, base >= 0.
QuadraticShare(base, round, rounds) ==
    (base * (rounds - round) * (rounds - round)) \div (rounds * rounds)

\* Line 163, for tokens_per_round # 0.
TotalRounds(token_config) ==
    CeilDiv(token_config.total_amount, token_config.tokens_per_round)

Raise(exception) == [raised |-> exception, round_amount |-> 0]
Amount(n) == [raised |-> "", round_amount |-> n]

\* Lines 161-175: the round amount of one token, or the exception raised.
RoundAmount(token_config, round) ==
    LET type == token_config.distribution_type
        base_amount == token_config.tokens_per_round
        total_rounds == TotalRounds(token_config)
    IN  IF base_amount = 0 THEN Raise("ZeroDivisionError")
        ELSE IF type = "linear" THEN Amount(base_amount)
        ELSE IF type = "logarithmic" THEN
            IF total_rounds - round + 1 <= 0 \/ total_rounds <= 0
            THEN Raise("ValueError")
            ELSE IF total_rounds = 1 THEN Raise("ZeroDivisionError")
            ELSE Amount(LogShare(base_amount, total_rounds - round + 1,
                                 total_rounds))
        ELSE IF type = "quadratic" THEN
            IF total_rounds = 0 THEN Raise("ZeroDivisionError")
            ELSE Amount(QuadraticShare(base_amount, round, total_rounds))
        ELSE Amount(base_amount)

----------------------------------------------------------------------------
(* calculate_token_distributions, lines 119-191.                           *)

TokenDistribution(tid, per_recipient, total) ==
    [token_id |-> tid, amount_per_recipient |-> per_recipient,
     total_amount |-> total]

\* Lines 177-181: min(round_amount // n, total_available // n), n > 0.
ScheduledPerRecipient(round_amount, total_available, n) == round_amount \div n

AmountPerRecipient(round_amount, total_available, n) ==
    Min(round_amount \div n, total_available \div n)

\* The loop of lines 144-189 from the i-th configured token on.  An
\* exception of the formula leaves the function: nothing is returned.
RECURSIVE CalcLoop(_, _, _, _, _, _)
CalcLoop(i, utxos, token_configs, round, n, distributions) ==
    IF i > Len(TokenOrder)
    THEN [raised |-> "", distributions |-> distributions]
    ELSE
      LET token_id == TokenOrder[i]
          token_utxos == GetList(utxos, token_id)
          total_available == TokenTotal(token_utxos, token_id)
          formula == RoundAmount(token_configs[token_id], round)
          per_recipient ==
              AmountPerRecipient(formula.round_amount, total_available, n)
      IN  IF token_utxos = <<>> \/ total_available = 0
          THEN CalcLoop(i + 1, utxos, token_configs, round, n, distributions)
          ELSE IF formula.raised # ""
          THEN [raised |-> formula.raised, distributions |-> <<>>]
          ELSE IF n = 0
          THEN [raised |-> "ZeroDivisionError", distributions |-> <<>>]
          ELSE IF per_recipient > 0
          THEN CalcLoop(i + 1, utxos, token_configs, round, n,
                        Append(distributions,
                               TokenDistribution(token_id, per_recipient,
                                                 per_recipient * n)))
          ELSE CalcLoop(i + 1, utxos, token_configs, round, n, distributions)

calculate_token_distributions(utxos, token_configs, round, n) ==
    CalcLoop(1, utxos, token_configs, round, n, <<>>)

----------------------------------------------------------------------------
(* select_utxos, lines 39-107.                                             *)

\* list.sort(key=..., reverse=True) on a list of [key, box] pairs: Python's
\* sort is stable, also when reversed, so equal keys keep the list's order.
RECURSIVE SortDescending(_)
SortDescending(pairs) ==
    IF pairs = <<>> THEN <<>>
    ELSE
      LET n == Len(pairs)
          last == pairs[n]
          front == SortDescending(SubSeq(pairs, 1, n - 1))
          k == Cardinality({i \in 1..Len(front) : front[i].key >= last.key})
      IN  SubSeq(front, 1, k) \o <<last>> \o SubSeq(front, k + 1, Len(front))

Boxes(pairs) == [i \in 1..Len(pairs) |-> pairs[i].box]

RECURSIVE Flatten(_)
Flatten(lists) ==
    IF lists = <<>> THEN <<>> ELSE Head(lists) \o Flatten(Tail(lists))

\* Line 43.
NeededErg(n) == (NANOERG_PER_RECIPIENT + MIN_BOX_VALUE) * n + FEE

\* Line 47: the keys of token_amounts.
RequestedTokens(dists) == {dists[i].token_id : i \in 1..Len(dists)}

\* Lines 50-54: every box with more than one token, once per list it is in.
MultiTokenBoxes(utxos) ==
    Flatten([i \in 1..Len(SnapshotKeys(utxos)) |->
        SelectSeq(utxos[SnapshotKeys(utxos)[i]],
                  LAMBDA b : Cardinality(DOMAIN b.tokens) > 1)])

\* Line 57: the sort key, the number of requested tokens the box contains.
NeededTokenCount(box, dists) ==
    Cardinality(RequestedTokens(dists) \cap DOMAIN box.tokens)

SortedMultiTokenBoxes(utxos, dists) ==
    LET boxes == MultiTokenBoxes(utxos)
    IN  Boxes(SortDescending([i \in 1..Len(boxes) |->
            [key |-> NeededTokenCount(boxes[i], dists), box |-> boxes[i]]]))

\* Lines 62-67 and 85-88: the accumulators after taking a box.
AddAllTokens(sel, box) ==
    [selected_boxes |-> Append(sel.selected_boxes, box),
     selected_box_ids |-> sel.selected_box_ids \cup {box.box_id},
     total_erg |-> sel.total_erg + box.value,
     token_amounts |-> [t \in DOMAIN sel.token_amounts |->
         sel.token_amounts[t] + TokenAmount(box, t)]]

AddOneToken(sel, box, token_id) ==
    [selected_boxes |-> Append(sel.selected_boxes, box),
     selected_box_ids |-> sel.selected_box_ids \cup {box.box_id},
     total_erg |-> sel.total_erg + box.value,
     token_amounts |-> [sel.token_amounts EXCEPT
         ![token_id] = @ + TokenAmount(box, token_id)]]

\* Lines 60-67: one iteration of the first pass.
TakeAlways(sel, box) == AddAllTokens(sel, box)

FirstPassStep(sel, box) ==
    IF box.box_id \notin sel.selected_box_ids
    THEN AddAllTokens(sel, box)
    ELSE sel

RECURSIVE FirstPass(_, _)
FirstPass(sel, boxes) ==
    IF boxes = <<>> THEN sel
    ELSE FirstPass(FirstPassStep(sel, Head(boxes)), Tail(boxes))

\* Lines 75-79: the unused boxes of the token, largest amount first.
UnsortedBoxes(utxos, sel, token_id) ==
    SelectSeq(GetList(utxos, token_id),
              LAMBDA b : b.box_id \notin sel.selected_box_ids)

AvailableBoxes(utxos, sel, token_id) ==
    LET boxes == SelectSeq(GetList(utxos, token_id),
                           LAMBDA b : b.box_id \notin sel.selected_box_ids)
    IN  Boxes(SortDescending([i \in 1..Len(boxes) |->
            [key |-> TokenAmount(boxes[i], token_id), box |-> boxes[i]]]))

\* Lines 81-88: take boxes until the target is met or the list ends.
RECURSIVE TopUp(_, _, _)
TopUp(sel, boxes, dist) ==
    IF boxes = <<>> \/ sel.token_amounts[dist.token_id] >= dist.total_amount
    THEN sel
    ELSE TopUp(AddOneToken(sel, Head(boxes), dist.token_id), Tail(boxes), dist)

\* Lines 70-88: the second pass, distribution by distribution.
RECURSIVE SecondPass(_, _, _)
SecondPass(sel, utxos, dists) ==
    IF dists = <<>> THEN sel
    ELSE
      LET dist == Head(dists)
          next == IF sel.token_amounts[dist.token_id] < dist.total_amount
                  THEN TopUp(sel, AvailableBoxes(utxos, sel, dist.token_id),
                             dist)
                  ELSE sel
      IN  SecondPass(next, utxos, Tail(dists))

\* Lines 91-94: the tokens reported missing.
MissingTokens(sel, dists) ==
    SelectSeq([i \in 1..Len(dists) |-> dists[i].token_id],
              LAMBDA t : \E i \in 1..Len(dists) :
                  /\ dists[i].token_id = t
                  /\ sel.token_amounts[t] < dists[i].total_amount)

\* Lines 44-47: the accumulators before the first pass.
EmptySelection(dists) ==
    [selected_boxes |-> <<>>, selected_box_ids |-> {}, total_erg |-> 0,
     token_amounts |-> [t \in RequestedTokens(dists) |-> 0]]

\* The accumulators at line 68, after the first pass.
AfterFirstPass(utxos, dists) ==
    FirstPass(EmptySelection(dists), SortedMultiTokenBoxes(utxos, dists))

\* The accumulators at line 89, after both passes.
AfterSecondPass(utxos, dists) ==
    SecondPass(AfterFirstPass(utxos, dists), utxos, dists)

select_utxos(utxos, dists, n) ==
    LET sel == AfterSecondPass(utxos, dists)
        missing_tokens == MissingTokens(sel, dists)
        failure(message) ==
            [raised |-> "ValueError", message |-> message,
             missing_tokens |-> missing_tokens,
             boxes |-> <<>>, total_erg |-> 0,
             token_amounts |-> [t \in RequestedTokens(dists) |-> 0],
             box_ids |-> {}]
    IN  IF missing_tokens # <<>>
        THEN failure("Insufficient token amounts")
        ELSE IF sel.total_erg < NeededErg(n)
        THEN failure("Insufficient ERG")
        ELSE [raised |-> "", message |-> "", missing_tokens |-> <<>>,
              boxes |-> sel.selected_boxes, total_erg |-> sel.total_erg,
              token_amounts |-> sel.token_amounts,
              box_ids |-> sel.selected_box_ids]

----------------------------------------------------------------------------
(* distribute_multiple_tokens, lines 193-295.                              *)

\* Python values whose type decides what the code does with them.
PyDict(d) == [py_type |-> "dict", value |-> d]
PyList(l) == [py_type |-> "list", value |-> l]

\* Lines 217-229: the inner loop over one token's list.  used is the list
\* of UTXO records taken so far (input_boxes and used_utxos together).
RECURSIVE CollectToken(_, _, _, _)
CollectToken(used, token_utxos, token_id, remaining_amount) ==
    IF token_utxos = <<>> THEN used
    ELSE
      LET utxo == Head(token_utxos)
          left == remaining_amount - TokenAmount(utxo, token_id)
      IN  IF \E i \in 1..Len(used) : used[i].box_id = utxo.box_id
          THEN CollectToken(used, Tail(token_utxos), token_id,
                            remaining_amount)
          ELSE IF left <= 0
          THEN Append(used, utxo)
          ELSE CollectToken(Append(used, utxo), Tail(token_utxos), token_id,
                            left)

\* Lines 213-229: the outer loop over the distributions.
RECURSIVE CollectInputs(_, _, _)
CollectInputs(used, utxos, dists) ==
    IF dists = <<>> THEN used
    ELSE CollectInputs(
             CollectToken(used, GetList(utxos, Head(dists).token_id),
                          Head(dists).token_id, Head(dists).total_amount),
             utxos, Tail(dists))

\* Lines 238-241: the token amounts of one recipient output (a dict: a
\* later distribution of the same token overwrites an earlier one).
RecipientTokens(dists) ==
    [t \in RequestedTokens(dists) |->
        LET last == CHOOSE i \in 1..Len(dists) :
                /\ dists[i].token_id = t
                /\ \A j \in 1..Len(dists) : dists[j].token_id = t => j <= i
        IN  dists[last].amount_per_recipient]

\* Lines 254-259: change_amount of one distribution.
NoRemainder(used, utxos, dist) == 0

ChangeAmount(used, utxos, dist) ==
    TokenTotal(SelectSeq(GetList(utxos, dist.token_id),
                         LAMBDA u : \E i \in 1..Len(used) :
                             used[i].box_id = u.box_id),
               dist.token_id)
    - dist.total_amount

\* Lines 252-261: change_tokens.
ChangeTokens(used, utxos, dists) ==
    [t \in {dists[i].token_id : i \in {j \in 1..Len(dists) :
                ChangeAmount(used, utxos, dists[j]) > 0}} |->
        LET last == CHOOSE i \in 1..Len(dists) :
                /\ dists[i].token_id = t
                /\ ChangeAmount(used, utxos, dists[i]) > 0
                /\ \A j \in 1..Len(dists) :
                      (dists[j].token_id = t
                       /\ ChangeAmount(used, utxos, dists[j]) > 0) => j <= i
        IN  ChangeAmount(used, utxos, dists[last])]

NoOutput == [present |-> FALSE, value |-> 0, tokens |-> <<>>]

NoPlan(exception) ==
    [raised |-> exception, input_boxes |-> <<>>, outputs |-> <<>>,
     change |-> NoOutput]

\* all_utxos_arg is the second argument as the caller passes it.
\* all_utxos.get(...) of line 214 is the first use: a list has no get.
distribute_multiple_tokens(all_utxos_arg, dists, n) ==
    LET utxos == all_utxos_arg.value
        erg_per_recipient == NANOERG_PER_RECIPIENT + MIN_BOX_VALUE
        total_erg_needed == erg_per_recipient * n + FEE
        used == CollectInputs(<<>>, utxos, dists)
        total_available_erg == ValueTotal(used)
        change_tokens == ChangeTokens(used, utxos, dists)
        change_value == total_available_erg - total_erg_needed
    IN  IF dists # <<>> /\ all_utxos_arg.py_type # "dict"
        THEN NoPlan("AttributeError")
        ELSE IF total_available_erg < total_erg_needed
        THEN NoPlan("ValueError")
        ELSE [raised |-> "",
              input_boxes |-> used,
              outputs |-> [r \in 1..n |->
                  [value |-> erg_per_recipient,
                   tokens |-> RecipientTokens(dists)]],
              change |->
                  IF change_value > 0 \/ DOMAIN change_tokens # {}
                  THEN [present |-> TRUE,
                        value |-> Max(change_value, MIN_BOX_VALUE),
                        tokens |-> change_tokens]
                  ELSE NoOutput]

----------------------------------------------------------------------------
(* Values of the variables a specification does not use.                   *)

\* "not called": the function has not been called (yet).
NoCalc == [raised |-> "not called", distributions |-> <<>>]

NoSelection ==
    [raised |-> "not called", message |-> "", missing_tokens |-> <<>>, boxes |-> <<>>,
     total_erg |-> 0, token_amounts |-> <<>>, box_ids |-> {}]

DefaultConfig == TokenConfig("linear", 2, 4)

\* total_amount and tokens_per_round of the emission check ("non-positive"
\* is represented by 0).
EmissionConfigs ==
    { TokenConfig(type, per_round, total) :
        type \in DistributionTypes,
        per_round \in 0..MaxPerRound,
        total \in 0..MaxTotalAmount }

----------------------------------------------------------------------------
(* SpecEmission: one token's formula, round after round.                   *)
(* main() never resets or bounds current_round (line 425).                 *)

InitEmission ==
    /\ pc = "emission"
    /\ \E config \in EmissionConfigs :
          tokens_info = [t \in TokenIds |->
                            IF t = "A" THEN config ELSE DefaultConfig]
    /\ num_recipients = 1
    /\ current_round = 1
    /\ unspent_boxes = <<>>
    /\ all_utxos = <<>>
    /\ token_distributions = <<>>
    /\ calc = NoCalc
    /\ utxo_set = NoSelection
    /\ plan = NoPlan("not called")
    /\ box_age_over_30 = FALSE
    /\ spent_boxes = {}
    /\ emitted = <<>>

\* Lines 160-175 for token "A" at the driver's round, then line 425.
EmissionRound ==
    /\ pc = "emission"
    /\ current_round <= MaxEmissionRound
    /\ emitted' = Append(emitted, RoundAmount(tokens_info["A"], current_round))
    /\ current_round' = current_round + 1
    /\ UNCHANGED <<pc, tokens_info, num_recipients, unspent_boxes, all_utxos,
                   token_distributions, calc, utxo_set, plan,
                   box_age_over_30, spent_boxes>>

NextEmission == EmissionRound

SpecEmission == InitEmission /\ [][NextEmission]_vars

\* The config of the token the emission check follows, and whether the
\* spec calls it valid (total_amount > 0 and tokens_per_round > 0).
EmissionConfig == tokens_info["A"]

ValidConfig(token_config) ==
    token_config.total_amount > 0 /\ token_config.tokens_per_round > 0

Decaying(token_config) ==
    token_config.distribution_type \in {"logarithmic", "quadratic"}

EmittedSum == SumSeq([r \in 1..Len(emitted) |-> emitted[r].round_amount])

\* C6: for a logarithmic token, when total_rounds <= 1 or the round is past
\* total_rounds, the emission calculation yields a round amount of 0 and
\* does not raise.
C6_LogarithmicPastScheduleIsZero ==
    \A r \in 1..Len(emitted) :
        ( /\ ValidConfig(EmissionConfig)
          /\ EmissionConfig.distribution_type = "logarithmic"
          /\ (TotalRounds(EmissionConfig) <= 1
              \/ r > TotalRounds(EmissionConfig)) )
        => emitted[r] = Amount(0)

\* C7: for every valid config and every round r in 1..total_rounds the
\* round amount is computed and >= 0; for logarithmic and quadratic types
\* it does not increase from r to r + 1 (up to total_rounds) and it is 0 at
\* r = total_rounds.
C7_AmountNonNegativeAndDecaying ==
    \A r \in 1..Len(emitted) :
        (ValidConfig(EmissionConfig) /\ r <= TotalRounds(EmissionConfig))
        => /\ emitted[r].raised = ""
           /\ emitted[r].round_amount >= 0
           /\ (Decaying(EmissionConfig) /\ r > 1)
                 => emitted[r].round_amount <= emitted[r - 1].round_amount
           /\ (Decaying(EmissionConfig) /\ r = TotalRounds(EmissionConfig))
                 => emitted[r].round_amount = 0

\* What is left of C7 once the logarithmic schedule of a single round (the
\* case of C6) is set aside: the same statement for total_rounds >= 2 or a
\* type other than logarithmic.
C7_HoldsOutsideSingleRoundLogarithm ==
    ( EmissionConfig.distribution_type = "logarithmic"
      /\ ValidConfig(EmissionConfig)
      /\ TotalRounds(EmissionConfig) = 1 )
    \/ C7_AmountNonNegativeAndDecaying

\* C8: total_amount is a lifetime cap: after any number of consecutive
\* rounds 1..k the round amounts computed so far sum to at most
\* total_amount, and no round past total_rounds has a positive round amount.
C8_TotalAmountIsLifetimeCap ==
    ( ValidConfig(EmissionConfig)
      /\ EmissionConfig.tokens_per_round <= EmissionConfig.total_amount )
    => /\ EmittedSum <= EmissionConfig.total_amount
       /\ \A r \in 1..Len(emitted) :
             r > TotalRounds(EmissionConfig) => emitted[r].round_amount <= 0

----------------------------------------------------------------------------
(* SpecSelect: select_utxos on any snapshot, any distributions.            *)

\* Lists of distributions in config order, total_amount = per recipient * n
\* (lines 184-189), of any size against the snapshot.
FreeDistributions(n) ==
    { SelectSeq([i \in 1..Len(TokenOrder) |->
                    TokenDistribution(TokenOrder[i], per[TokenOrder[i]],
                                      per[TokenOrder[i]] * n)],
                LAMBDA d : d.amount_per_recipient > 0) :
        per \in [TokenIds -> 0..MaxPerRecipient] }

InitSelect ==
    /\ pc = "select"
    /\ tokens_info = [t \in TokenIds |-> DefaultConfig]
    /\ num_recipients \in 1..MaxRecipients
    /\ current_round = 1
    /\ unspent_boxes \in BoxLists(MaxBoxes)
    /\ all_utxos = ScanAll(unspent_boxes)
    /\ token_distributions \in FreeDistributions(num_recipients)
    /\ calc = NoCalc
    /\ utxo_set = NoSelection
    /\ plan = NoPlan("not called")
    /\ box_age_over_30 = FALSE
    /\ spent_boxes = {}
    /\ emitted = <<>>

SelectCall ==
    /\ pc = "select"
    /\ pc' = "selected"
    /\ utxo_set' = select_utxos(all_utxos, token_distributions, num_recipients)
    /\ UNCHANGED <<tokens_info, num_recipients, current_round, unspent_boxes,
                   all_utxos, token_distributions, calc, plan,
                   box_age_over_30, spent_boxes, emitted>>

NextSelect == SelectCall

SpecSelect == InitSelect /\ [][NextSelect]_vars

\* The UTXO records of a snapshot and sub-collections of them.
SnapshotBoxes(utxos) ==
    UNION { Range(utxos[t]) : t \in DOMAIN utxos }

SetValue(boxes) ==
    LET RECURSIVE Sum(_)
        Sum(S) == IF S = {} THEN 0
                  ELSE LET b == CHOOSE x \in S : TRUE
                       IN  b.value + Sum(S \ {b})
    IN  Sum(boxes)

SetTokens(boxes, token_id) ==
    LET RECURSIVE Sum(_)
        Sum(S) == IF S = {} THEN 0
                  ELSE LET b == CHOOSE x \in S : TRUE
                       IN  TokenAmount(b, token_id) + Sum(S \ {b})
    IN  Sum(boxes)

Covers(boxes, dists, n) ==
    /\ \A i \in 1..Len(dists) :
          SetTokens(boxes, dists[i].token_id) >= dists[i].total_amount
    /\ SetValue(boxes) >= NeededErg(n)

\* C1: whenever select_utxos returns a UTXOSet, no box id occurs twice
\* among the selected boxes, every requested token's accumulated total is
\* >= the distribution's total_amount, and the accumulated ERG is
\* >= (NANOERG_PER_RECIPIENT + MIN_BOX_VALUE) * num_recipients + FEE.  The
\* accumulators are the totals of the boxes selected.
C1_SelectionDisjointAndSufficient ==
    (pc = "selected" /\ utxo_set.raised = "")
    => /\ \A i, j \in 1..Len(utxo_set.boxes) :
             utxo_set.boxes[i].box_id = utxo_set.boxes[j].box_id => i = j
       /\ utxo_set.box_ids =
             {utxo_set.boxes[i].box_id : i \in 1..Len(utxo_set.boxes)}
       /\ \A i \in 1..Len(token_distributions) :
             LET d == token_distributions[i]
             IN  /\ utxo_set.token_amounts[d.token_id] >= d.total_amount
                 /\ utxo_set.token_amounts[d.token_id]
                       = TokenTotal(utxo_set.boxes, d.token_id)
       /\ utxo_set.total_erg = ValueTotal(utxo_set.boxes)
       /\ utxo_set.total_erg >= NeededErg(num_recipients)

\* A selection that succeeds with a box that sits in two per-token lists
\* (a box holding both requested tokens) and a box of the second pass.
C1_Witness ==
    /\ pc = "selected"
    /\ utxo_set.raised = ""
    /\ Len(token_distributions) = 2
    /\ \E i, j \in 1..Len(utxo_set.boxes) :
          /\ TokenIds \subseteq DOMAIN utxo_set.boxes[i].tokens
          /\ Cardinality(DOMAIN utxo_set.boxes[j].tokens) = 1

\* C2: select_utxos fails only when the requirements cannot be met: when
\* some subset of the snapshot's UTXOs covers every requested token total
\* and the required ERG, select_utxos returns a UTXOSet.
C2_FailsOnlyWhenUnsatisfiable ==
    ( /\ pc = "selected"
      /\ token_distributions # <<>>
      /\ \E S \in SUBSET SnapshotBoxes(all_utxos) :
            Covers(S, token_distributions, num_recipients) )
    => utxo_set.raised = ""

----------------------------------------------------------------------------
(* SpecPlan: distribute_multiple_tokens on a snapshot dict (the type its   *)
(* signature declares) and distributions as calculate_token_distributions  *)
(* derives them from that snapshot: in config order, amount_per_recipient  *)
(* > 0 and total_amount = amount_per_recipient * n <= the snapshot's total *)
(* (lines 177-189).  The node still has every box (line 222).              *)

PlannableDistributions(utxos, n) ==
    { dists \in FreeDistributions(n) :
        \A i \in 1..Len(dists) :
            dists[i].total_amount
                <= TokenTotal(GetList(utxos, dists[i].token_id),
                              dists[i].token_id) }

InitPlan ==
    /\ pc = "plan"
    /\ tokens_info = [t \in TokenIds |-> DefaultConfig]
    /\ num_recipients \in 1..MaxRecipients
    /\ current_round = 1
    /\ unspent_boxes \in BoxLists(MaxBoxes)
    /\ all_utxos = ScanAll(unspent_boxes)
    /\ token_distributions \in
          PlannableDistributions(all_utxos, num_recipients) \ {<<>>}
    /\ calc = NoCalc
    /\ utxo_set = NoSelection
    /\ plan = NoPlan("not called")
    /\ box_age_over_30 = FALSE
    /\ spent_boxes = {}
    /\ emitted = <<>>

PlanCall ==
    /\ pc = "plan"
    /\ pc' = "planned"
    /\ plan' = distribute_multiple_tokens(PyDict(all_utxos),
                                          token_distributions, num_recipients)
    /\ UNCHANGED <<tokens_info, num_recipients, current_round, unspent_boxes,
                   all_utxos, token_distributions, calc, utxo_set,
                   box_age_over_30, spent_boxes, emitted>>

NextPlan == PlanCall

SpecPlan == InitPlan /\ [][NextPlan]_vars

\* Totals of a plan: what the recipient outputs and the change output carry
\* of a token, and what the consumed inputs hold of it.
PlanAssembled == pc = "planned" /\ plan.raised = ""

OutputTokens(output, token_id) ==
    IF token_id \in DOMAIN output.tokens THEN output.tokens[token_id] ELSE 0

RecipientsReceive(token_id) ==
    SumSeq([r \in 1..Len(plan.outputs) |->
               OutputTokens(plan.outputs[r], token_id)])

ChangeReturns(token_id) ==
    IF plan.change.present THEN OutputTokens(plan.change, token_id) ELSE 0

InputsHold(token_id) == TokenTotal(plan.input_boxes, token_id)

DistributedTokens == RequestedTokens(token_distributions)

C4_EveryTokenConserved ==
    PlanAssembled
    => \A t \in UNION {DOMAIN plan.input_boxes[i].tokens :
                          i \in 1..Len(plan.input_boxes)} :
          RecipientsReceive(t) + ChangeReturns(t) = InputsHold(t)

\* C5: ERG is conserved by every assembled plan: the recipients' ERG plus
\* the change output's ERG (0 if none) plus FEE equals the ERG of the
\* consumed inputs, whatever the surplus over the requirement.
C5_ErgConserved ==
    PlanAssembled
    => SumSeq([r \in 1..Len(plan.outputs) |-> plan.outputs[r].value])
       + (IF plan.change.present THEN plan.change.value ELSE 0)
       + FEE
       = ValueTotal(plan.input_boxes)

----------------------------------------------------------------------------
(* Spec: the cycle driver, the loop of main() (lines 350-431).             *)
(*   pc = "loop"     at line 353, before the scan                          *)
(*   pc = "scanned"  at line 365, the snapshot is in all_utxos             *)
(*   any other pc    at line 425, naming the branch the iteration took     *)
(*   pc = "cycle_error" in the outer handler (line 428)                    *)

\* bot_info["tokens"]: token "A" of any type with a schedule of one or two
\* rounds or with tokens_per_round = 0, token "B" linear or logarithmic
\* with a schedule of one round.
DriverConfigs ==
    { [t \in TokenIds |-> IF t = "A" THEN a ELSE b] :
        a \in { TokenConfig(type, 2, total) :
                  type \in DistributionTypes, total \in {2, 4} }
              \cup { TokenConfig("linear", 0, 2) },
        b \in { DefaultConfig, TokenConfig("logarithmic", 2, 2) } }

Init ==
    /\ pc = "loop"
    /\ tokens_info \in DriverConfigs
    /\ num_recipients \in 1..MaxRecipients
    /\ current_round = 1
    /\ unspent_boxes = <<>>
    /\ all_utxos = <<>>
    /\ token_distributions = <<>>
    /\ calc = NoCalc
    /\ utxo_set = NoSelection
    /\ plan = NoPlan("not called")
    /\ box_age_over_30 = FALSE
    /\ spent_boxes = {}
    /\ emitted = <<>>

\* The branches an iteration can end in (the log line it writes).
CycleBranches ==
    {"no_utxos", "nothing_to_distribute", "selection_failed",
     "box_unavailable", "planning_error", "distributed"}

\* Lines 355-363: the node answers every scan of the iteration.
Scan ==
    /\ pc \in {"loop", "cycle_error"}
    /\ current_round <= MaxRound
    /\ \E boxes \in BoxLists(MaxScan) :
          /\ unspent_boxes' = boxes
          /\ all_utxos' = ScanAll(boxes)
    /\ pc' = "scanned"
    /\ UNCHANGED <<tokens_info, num_recipients, current_round,
                   token_distributions, calc, utxo_set, plan,
                   box_age_over_30, spent_boxes, emitted>>

\* Lines 355-363 and 428-431: a scan raises, the outer handler logs and
\* sleeps, the loop goes on with the round counter as it was.
ScanFails ==
    /\ pc = "loop"
    /\ current_round <= MaxRound
    /\ pc' = "cycle_error"
    /\ UNCHANGED <<tokens_info, num_recipients, current_round, unspent_boxes,
                   all_utxos, token_distributions, calc, utxo_set, plan,
                   box_age_over_30, spent_boxes, emitted>>

\* Lines 387-392: the re-check of the selected boxes raises ValueError.
NeverRechecked(selection, stale, spent) == FALSE

BoxUnavailable(selection, stale, spent) ==
    stale /\ selection.box_ids \cap spent # {}

\* Lines 365-423 for a snapshot: the branch taken and the values computed.
\* stale: box_age > 30; spent: scanned boxes the node no longer has.
\* The branch "distributed" is a plan handed to build, sign and send.
PlanCycle(utxos, round, stale, spent) ==
    LET c == calculate_token_distributions(utxos, tokens_info, round,
                                           num_recipients)
        selection == select_utxos(utxos, c.distributions, num_recipients)
        p == distribute_multiple_tokens(PyList(selection.boxes),
                                        c.distributions, num_recipients)
        idle == [branch |-> "", calc |-> NoCalc, utxo_set |-> NoSelection,
                 plan |-> NoPlan("not called"), rechecked |-> FALSE]
    IN  IF DOMAIN utxos = {}
        THEN [idle EXCEPT !.branch = "no_utxos"]
        ELSE IF c.raised # ""
        THEN [idle EXCEPT !.branch = "planning_error", !.calc = c]
        ELSE IF c.distributions = <<>>
        THEN [idle EXCEPT !.branch = "nothing_to_distribute", !.calc = c]
        ELSE IF selection.raised # ""
        THEN [idle EXCEPT !.branch = "selection_failed", !.calc = c,
                          !.utxo_set = selection]
        ELSE IF BoxUnavailable(selection, stale, spent)
        THEN [idle EXCEPT !.branch = "box_unavailable", !.calc = c,
                          !.utxo_set = selection, !.rechecked = TRUE]
        ELSE [branch |-> IF p.raised = "ValueError" THEN "selection_failed"
                         ELSE IF p.raised # "" THEN "planning_error"
                         ELSE "distributed",
              calc |-> c, utxo_set |-> selection, plan |-> p,
              rechecked |-> stale]

\* Lines 365-423: one iteration's planning on the scanned snapshot.  The
\* age of the boxes and the boxes spent meanwhile are recorded only when
\* line 387 is reached; build, sign or send (lines 276-283) may raise.
Plan ==
    /\ pc = "scanned"
    /\ LET fresh == PlanCycle(all_utxos, current_round, FALSE, {})
           selected == fresh.utxo_set.raised = ""
       IN  \E stale \in IF selected THEN BOOLEAN ELSE {FALSE} :
           \E spent \in IF stale
                        THEN {{}} \cup {{id} : id \in fresh.utxo_set.box_ids}
                        ELSE {{}} :
              LET result == IF stale
                            THEN PlanCycle(all_utxos, current_round, stale,
                                           spent)
                            ELSE fresh
              IN  /\ pc' \in IF result.branch = "distributed"
                             THEN {"distributed", "planning_error"}
                             ELSE {result.branch}
                  /\ calc' = result.calc
                  /\ token_distributions' = result.calc.distributions
                  /\ utxo_set' = result.utxo_set
                  /\ plan' = result.plan
                  /\ box_age_over_30' = stale
                  /\ spent_boxes' = spent
    /\ UNCHANGED <<tokens_info, num_recipients, current_round, unspent_boxes,
                   all_utxos, emitted>>

\* Lines 425-426: the round counter goes on, the iteration's locals are
\* dead (all_utxos is rebuilt at line 355, the others before their use).
EndCycleSameRound ==
    /\ pc \in CycleBranches
    /\ pc' = "loop"
    /\ unspent_boxes' = <<>>
    /\ all_utxos' = <<>>
    /\ token_distributions' = <<>>
    /\ calc' = NoCalc
    /\ utxo_set' = NoSelection
    /\ plan' = NoPlan("not called")
    /\ box_age_over_30' = FALSE
    /\ spent_boxes' = {}
    /\ UNCHANGED <<tokens_info, num_recipients, current_round, emitted>>

EndCycle ==
    /\ pc \in CycleBranches
    /\ current_round' = current_round + 1
    /\ pc' = "loop"
    /\ unspent_boxes' = <<>>
    /\ all_utxos' = <<>>
    /\ token_distributions' = <<>>
    /\ calc' = NoCalc
    /\ utxo_set' = NoSelection
    /\ plan' = NoPlan("not called")
    /\ box_age_over_30' = FALSE
    /\ spent_boxes' = {}
    /\ UNCHANGED <<tokens_info, num_recipients, emitted>>

Next == Scan \/ ScanFails \/ Plan \/ EndCycle

Spec == Init /\ [][Next]_vars

\* An iteration that called calculate_token_distributions (line 368).
Calculated == pc \in CycleBranches /\ DOMAIN all_utxos # {}

Available(token_id) ==
    TokenTotal(GetList(all_utxos, token_id), token_id)

Formula(token_id) == RoundAmount(tokens_info[token_id], current_round)

\* floor(min(round_amount, total available) / recipient_count)
Share(token_id) ==
    Min(Formula(token_id).round_amount, Available(token_id))
        \div num_recipients

Emitted(token_id) ==
    \E i \in 1..Len(calc.distributions) :
        calc.distributions[i].token_id = token_id

EmittedAsShared(token_id) ==
    \E i \in 1..Len(calc.distributions) :
        calc.distributions[i] =
            TokenDistribution(token_id, Share(token_id),
                              Share(token_id) * num_recipients)

\* C9: calculate_token_distributions emits a TokenDistribution for a token
\* exactly when floor(min(round_amount, available) / recipient_count) > 0,
\* with amount_per_recipient that value and total_amount that value times
\* recipient_count; every emitted total_amount is <= the snapshot's total
\* of the token and a token with snapshot total 0 is never emitted.
\* (Stated for configs that are all valid.)
C9_EmittedExactlyWhenShare ==
    (Calculated /\ \A t \in TokenIds : ValidConfig(tokens_info[t]))
    => /\ \A t \in TokenIds :
             Formula(t).raised = ""
             => /\ Emitted(t) <=> Share(t) > 0
                /\ Emitted(t) => EmittedAsShared(t)
       /\ \A i \in 1..Len(calc.distributions) :
             /\ calc.distributions[i].total_amount
                   <= Available(calc.distributions[i].token_id)
             /\ Available(calc.distributions[i].token_id) > 0

\* What is left of C9 when no token's formula raises in the call: the same
\* statement for the calls that return.
C9_HoldsWhenTheCallReturns ==
    (Calculated /\ calc.raised # "") \/ C9_EmittedExactlyWhenShare

\* A token of C10: its config is invalid or its formula cannot be evaluated.
Dropped(token_id) ==
    \/ ~ValidConfig(tokens_info[token_id])
    \/ Formula(token_id).raised # ""

\* C10: a token with an invalid config or a formula that cannot be
\* evaluated is dropped for the round only: in the same round every other
\* token with a valid config and a non-zero per-recipient amount gets its
\* TokenDistribution and selection is invoked for it.
C10_BadTokenIsIsolated ==
    Calculated
    => \A t \in TokenIds :
          ( /\ ~Dropped(t)
            /\ Share(t) > 0
            /\ \E u \in TokenIds \ {t} : Dropped(u) )
          => /\ EmittedAsShared(t)
             /\ utxo_set.raised # "not called"

----------------------------------------------------------------------------
(* The hand-over from selection to submission (lines 375-421).             *)

\* An iteration in which calculate_token_distributions yielded at least one
\* distribution, select_utxos returned and no selected box was found spent.
SelectedCycle ==
    /\ pc \in CycleBranches
    /\ calc.raised = ""
    /\ calc.distributions # <<>>
    /\ utxo_set.raised = ""
    /\ ~BoxUnavailable(utxo_set, box_age_over_30, spent_boxes)

\* distribute_multiple_tokens was entered in this iteration (line 404).
HandedOver == plan.raised # "not called"

PlanInputIds == {plan.input_boxes[i].box_id : i \in 1..Len(plan.input_boxes)}

\* C11: in every driver cycle in which calculate_token_distributions yields
\* at least one distribution, select_utxos succeeds and the selected boxes
\* are still unspent, the plan is handed to distribute_multiple_tokens, which
\* assembles a transaction whose input box ids are exactly the box_ids
\* returned by select_utxos for that cycle.
C11_SelectedCycleIsSubmitted ==
    SelectedCycle
    => /\ plan.raised = ""
       /\ PlanInputIds = utxo_set.box_ids

\* The selected ids the node no longer has.
SelectedAndSpent == utxo_set.box_ids \cap spent_boxes

\* C12: a plan goes to the submitter in a cycle only if, in that cycle,
\* selection succeeded and, when more than 30 s passed since the scan, every
\* selected id was re-checked and found unspent; if selection fails or a
\* selected id is found spent, nothing is handed over in that cycle, and the
\* next cycle starts without the old snapshot and plans from its own scan.
C12_SubmittedOnlyAfterRecheck ==
    /\ (HandedOver \/ pc = "distributed")
       => /\ utxo_set.raised = ""
          /\ box_age_over_30 => SelectedAndSpent = {}
    /\ ( pc \in CycleBranches
         /\ (utxo_set.raised = "ValueError"
             \/ (box_age_over_30 /\ SelectedAndSpent # {})) )
       => /\ ~HandedOver
          /\ pc \in {"selection_failed", "box_unavailable"}
    /\ pc = "loop" => (all_utxos = <<>> /\ utxo_set = NoSelection)
    /\ pc \in CycleBranches => all_utxos = ScanAll(unspent_boxes)

\* A cycle whose selection succeeded on a snapshot older than 30 s and whose
\* re-check found a selected box spent.
C12_Witness ==
    /\ pc = "box_unavailable"
    /\ utxo_set.raised = ""
    /\ box_age_over_30
    /\ SelectedAndSpent # {}
    /\ ~HandedOver

----------------------------------------------------------------------------
(* The two passes of select_utxos (lines 49-88), checked in SpecSelect.    *)

\* The boxes the first pass consumed, in the order it consumed them.
PassOneBoxes == AfterFirstPass(all_utxos, token_distributions).selected_boxes

\* The number of distinct requested tokens a box holds.
RequestedHeld(box) == NeededTokenCount(box, token_distributions)

\* C13: pass 1 of select_utxos consumes only UTXOs that hold more than one
\* requested token, in descending order of the number of distinct requested
\* tokens they hold, and all of them are in the selection before any UTXO
\* consumed in pass 2.
C13_FirstPassTakesMultiRequested ==
    (pc = "selected" /\ token_distributions # <<>>)
    => /\ \A i \in 1..Len(PassOneBoxes) : RequestedHeld(PassOneBoxes[i]) > 1
       /\ \A i, j \in 1..Len(PassOneBoxes) :
             i < j => RequestedHeld(PassOneBoxes[i])
                         >= RequestedHeld(PassOneBoxes[j])
       /\ \A box \in SnapshotBoxes(all_utxos) :
             RequestedHeld(box) > 1 => box \in Range(PassOneBoxes)
       /\ utxo_set.raised = ""
             => SubSeq(utxo_set.boxes, 1, Len(PassOneBoxes)) = PassOneBoxes

\* The lists that hold the same boxes as the node's answer, in any order.
Reorderings(boxes) ==
    { [i \in 1..Len(boxes) |-> boxes[f[i]]] :
        f \in { g \in [1..Len(boxes) -> 1..Len(boxes)] :
                  \A i, j \in 1..Len(boxes) : g[i] = g[j] => i = j } }

\* C14: ties in both passes are broken by UTXO identifier, so for two
\* snapshots that contain the same UTXOs listed in a different order
\* select_utxos gives the same outcome: the same boxes in the same order.
C14_SelectionIgnoresListOrder ==
    (pc = "selected" /\ token_distributions # <<>>)
    => \A boxes \in Reorderings(unspent_boxes) :
          LET other == select_utxos(ScanAll(boxes), token_distributions,
                                    num_recipients)
          IN  /\ other.raised = utxo_set.raised
              /\ other.boxes = utxo_set.boxes

\* The boxes the second pass consumed, in the order it consumed them.
PassTwoBoxes ==
    LET all == AfterSecondPass(all_utxos, token_distributions).selected_boxes
    IN  SubSeq(all, Len(PassOneBoxes) + 1, Len(all))

\* Of the second pass: the boxes consumed that hold the token, and the
\* boxes of the token's list that the first pass left unused.
ConsumedFor(token_id) ==
    SelectSeq(PassTwoBoxes, LAMBDA b : token_id \in DOMAIN b.tokens)

Candidates(token_id) ==
    { b \in Range(GetList(all_utxos, token_id)) : b \notin Range(PassOneBoxes) }

\* The token's accumulated total after the first pass.
AfterPassOne(token_id) ==
    AfterFirstPass(all_utxos, token_distributions).token_amounts[token_id]

ShortestPrefix(dist) ==
    LET t == dist.token_id
        c == ConsumedFor(t)
        amount(b) == TokenAmount(b, t)
    IN  /\ AfterPassOne(t) >= dist.total_amount => c = <<>>
        /\ Range(c) \subseteq Candidates(t)
        /\ \A j, k \in 1..Len(c) : j < k => amount(c[j]) >= amount(c[k])
        /\ \A b \in Candidates(t) \ Range(c) :
              \A j \in 1..Len(c) : amount(c[j]) >= amount(b)
        /\ c # <<>>
              => AfterPassOne(t) + TokenTotal(SubSeq(c, 1, Len(c) - 1), t)
                    < dist.total_amount
        /\ \/ AfterPassOne(t) + TokenTotal(c, t) >= dist.total_amount
           \/ Range(c) = Candidates(t)

\* C15: in pass 2 of select_utxos, for each token still short after pass 1,
\* the UTXOs consumed for it are a prefix of the not-yet-used UTXOs holding
\* it, taken in descending order of its amount, and the shortest prefix that
\* reaches the target (all of them if none does); a token already covered
\* by pass 1 consumes no UTXO in pass 2.
C15_SecondPassTakesShortestPrefix ==
    pc = "selected"
    => /\ \A i \in 1..Len(token_distributions) :
             ShortestPrefix(token_distributions[i])
       /\ \A i \in 1..Len(PassTwoBoxes) :
             \E j \in 1..Len(token_distributions) :
                 DOMAIN PassTwoBoxes[i].tokens
                     = {token_distributions[j].token_id}

\* A second pass that needs two boxes to reach a token's target and leaves
\* a smaller box of the token unused.
C15_Witness ==
    /\ pc = "selected"
    /\ utxo_set.missing_tokens = <<>>
    /\ \E i \in 1..Len(token_distributions) :
          LET t == token_distributions[i].token_id
          IN  /\ Len(ConsumedFor(t)) >= 2
              /\ Candidates(t) \ Range(ConsumedFor(t)) # {}

\* The accumulators select_utxos holds when it reaches its checks (line 90).
Accumulated == AfterSecondPass(all_utxos, token_distributions)

ShortTokens ==
    { token_distributions[i].token_id : i \in
        { j \in 1..Len(token_distributions) :
            Accumulated.token_amounts[token_distributions[j].token_id]
                < token_distributions[j].total_amount } }

ErgShort == Accumulated.total_erg < NeededErg(num_recipients)

\* C16: whenever select_utxos fails, the failure names every resource that
\* is short: every token whose accumulated total is below its target, and
\* the ERG whenever the accumulated ERG is below the required minimum, also
\* when a token is short at the same time; the failure leaves the snapshot
\* unchanged and returns no selection.
C16_FailureNamesEveryShortfall ==
    (pc = "selected" /\ utxo_set.raised # "")
    => /\ ShortTokens \subseteq Range(utxo_set.missing_tokens)
       /\ ErgShort => utxo_set.message = "Insufficient ERG"
       /\ all_utxos = ScanAll(unspent_boxes)
       /\ utxo_set.boxes = <<>> /\ utxo_set.box_ids = {}

----------------------------------------------------------------------------
(* Selection on the distributions calculated from the same snapshot.       *)

\* An iteration of the driver that called select_utxos (line 378).
SelectionCalled == pc \in CycleBranches /\ utxo_set.raised # "not called"

\* C17: when select_utxos is called with the distributions that
\* calculate_token_distributions computed from the same snapshot, after both
\* passes every requested token's accumulated total is >= its target: the
\* token-shortfall failure is unreachable and selection can fail only on
\* the ERG check.
C17_TokenShortfallUnreachable ==
    SelectionCalled
    => /\ token_distributions = calc.distributions
       /\ ShortTokens = {}
       /\ utxo_set.missing_tokens = <<>>
       /\ utxo_set.raised # "" => utxo_set.message = "Insufficient ERG"

\* A cycle whose selection had to top a token up in the second pass, reached
\* the token's target and failed on the ERG check.
C17_Witness ==
    /\ SelectionCalled
    /\ utxo_set.raised = "ValueError"
    /\ utxo_set.message = "Insufficient ERG"
    /\ \E i \in 1..Len(token_distributions) :
          LET d == token_distributions[i]
          IN  /\ AfterPassOne(d.token_id) < d.total_amount
              /\ Accumulated.token_amounts[d.token_id] >= d.total_amount

\* C17 for every list of distributions whose totals do not exceed the
\* snapshot's totals (lines 177-189), on the snapshots of SpecSelect.
C17_HoldsForEveryPlannableRequest ==
    ( /\ pc = "selected"
      /\ token_distributions
            \in PlannableDistributions(all_utxos, num_recipients) )
    => /\ ShortTokens = {}
       /\ utxo_set.raised # "" => utxo_set.message = "Insufficient ERG"

----------------------------------------------------------------------------
(* The round counter of main() (lines 350, 425).                           *)

\* C18: the driver's round counter starts at 1, never decreases, and
\* increases by exactly 1 at the end of every loop iteration whose scan does
\* not raise, whatever the branch the iteration took; it stays unchanged
\* only when the exception goes to the outer handler.  A round that was
\* planned is left behind: the step after planning is the increment.
C18_RoundCounterAdvances ==
    /\ current_round = 1
    /\ [][ /\ current_round' >= current_round
           /\ pc \in CycleBranches
                 => (current_round' = current_round + 1 /\ pc' = "loop")
           /\ current_round' # current_round
                 => (pc \in CycleBranches
                     /\ current_round' = current_round + 1)
           /\ pc' \in CycleBranches => pc = "scanned"
           /\ pc' = "cycle_error"
                 => (pc = "loop" /\ current_round' = current_round) ]_vars

\* A second round that is planned after the first one ended without a
\* distribution, and that fails too.
C18_Witness ==
    /\ current_round = 2
    /\ pc \in {"selection_failed", "planning_error", "box_unavailable"}

====
